---- MODULE Spec2Model ----
(***************************************************************************)
(* Model of the Activation operator of src/activation-inl.h:               *)
(*   ActivationParam   the act_type parameter and its enumeration          *)
(*   ActivationProp    InferShape, DeclareBackwardDependency and the       *)
(*                     in-place options                                    *)
(*   ActivationOp      Forward, Backward, exec_type                        *)
(* Tensors are flat sequences of integers; vectors are sequences.          *)
(***************************************************************************)
EXTENDS Integers, Sequences, FiniteSets, TLC

VARIABLES
    act_type,    \* ActivationProp::param_.act_type: <<>> until set, then <<v>>
    tried,       \* act_type string passed to Init so far -> <<v>> or <<>> (refused)
    in_shape,    \* the caller's vectors InferShape points to, after the call
    out_shape,
    aux_shape,
    shape_pre,   \* the same three vectors as they were when the call began
    shape_ret,   \* what the last InferShape call returned
    use_cudnn,   \* MXNET_USE_CUDNN == 1 in this build
    hint,        \* the last dependency / in-place query: arguments and result
    op,          \* the ForwardOp/BackwardOp pair ActivationOp is instantiated with
    stream,      \* what ctx.get_stream<xpu>() returns: "null" or "stream"
    sizes,       \* sizes of argument vectors the caller of Forward/Backward uses
    mem,         \* tensor buffers: buffer name -> flat tensor
    mem0,        \* the buffers as they were when the operator was created
    out_buf,     \* the buffer the last successful Forward was given as out_data
    fwd_call,    \* the Forward invocation, kept while Backward runs
    phase,       \* "created", "typed", "forwarded", "backwarded", "stopped"
    exec,        \* what exec_type() returned, "" before it is asked
    call         \* the last Forward/Backward invocation: arguments and trace

vars == <<act_type, tried, in_shape, out_shape, aux_shape, shape_pre,
          shape_ret, use_cudnn, hint, op, stream, sizes, mem, mem0, out_buf,
          fwd_call, phase, exec, call>>

paramVars == <<act_type, tried>>
shapeVars == <<in_shape, out_shape, aux_shape, shape_pre, shape_ret>>
hintVars  == <<use_cudnn, hint>>
opVars    == <<op, stream, sizes, mem, mem0, out_buf, fwd_call, phase, exec,
               call>>

\* ---------------------------------------------------------------- bounds
\* largest size of an argument vector handed to a method
MaxVec == 2
\* largest number of dimensions of a TShape
MaxNdim == 2
\* number of elements of every tensor
NumElems == 2

Range(f) == {f[i] : i \in DOMAIN f}

SeqsUpTo(S, n) == UNION {[1..k -> S] : k \in 0..n}

\* ------------------------------------------------ activation enumerations
\* enum ActivationOpInputs {kData}; enum ActivationOpOutputs {kOut};
\* C++ vectors are 0-based, sequences 1-based: v[kData] is v[kData + 1] here
kData == 0
kOut == 0

\* enum ActivationOpType: the enumerators in declaration order; an
\* enumerator's value is its position counted from 0
ActivationOpType == <<"kReLU", "kSigmoid", "kTanh", "kSoftReLU", "kHLU">>

EnumValue(e) == (CHOOSE i \in DOMAIN ActivationOpType : ActivationOpType[i] = e) - 1

\* the act_type field as the original four-variant operator declares it
add_enum_without_hlu ==
    [n \in {"relu", "sigmoid", "tanh", "softrelu"} |->
        CASE n = "relu"     -> EnumValue("kReLU")
          [] n = "sigmoid"  -> EnumValue("kSigmoid")
          [] n = "tanh"     -> EnumValue("kTanh")
          [] n = "softrelu" -> EnumValue("kSoftReLU")]

\* DMLC_DECLARE_FIELD(act_type).add_enum(name, value) ...
add_enum ==
    [n \in {"relu", "sigmoid", "tanh", "softrelu", "hlu"} |->
        CASE n = "relu"     -> EnumValue("kReLU")
          [] n = "sigmoid"  -> EnumValue("kSigmoid")
          [] n = "tanh"     -> EnumValue("kTanh")
          [] n = "softrelu" -> EnumValue("kSoftReLU")
          [] n = "hlu"      -> EnumValue("kHLU")]

\* strings a caller may pass as the act_type keyword argument
KwargValues == {"relu", "sigmoid", "tanh", "softrelu", "hlu", "elu", "ReLU"}

\* ActivationProp::Init -> param_.Init(kwargs): an enum field takes the value
\* registered for the string and refuses (throws) any other string, leaving
\* the field as it was.  act_type is <<>> until a value is stored, then <<v>>.
\* tried remembers, for every string passed so far, the value stored for it
\* (<<v>>) or that it was refused (<<>>).
ParamInit ==
    \E name \in KwargValues :
       /\ IF name \in DOMAIN add_enum
             THEN /\ act_type' = <<add_enum[name]>>
                  /\ tried' = [n \in DOMAIN tried \cup {name} |->
                                  IF n = name THEN <<add_enum[name]>> ELSE tried[n]]
             ELSE /\ act_type' = act_type
                  /\ tried' = [n \in DOMAIN tried \cup {name} |->
                                  IF n = name THEN <<>> ELSE tried[n]]
       /\ UNCHANGED <<shapeVars, hintVars, opVars>>

AcceptedNames == {n \in DOMAIN tried : tried[n] # <<>>}
AcceptedValues == {tried[n][1] : n \in AcceptedNames}

\* ------------------------------------------------------------ InferShape
\* a TShape is the sequence of its dimensions; ndim() is its length
DimValues == {2, 3}
TShapes == SeqsUpTo(DimValues, MaxNdim)
ndim(shape) == Len(shape)

\* vectors of 0..MaxVec shapes: any shape, repeated
ShapeVecs == {[i \in 1..n |-> sh] : sh \in TShapes, n \in 0..MaxVec}
AuxVecs == SeqsUpTo({<<2>>}, 1)

\* InferShape that appends to out_shape without clearing it first
InferShapeNoClear(ins, outs, auxs) ==
    IF Len(ins) # 1
       THEN [ret |-> "check_failed", in |-> ins, out |-> outs, aux |-> auxs]
       ELSE LET dshape == ins[kData + 1] IN
            IF ndim(dshape) = 0
               THEN [ret |-> "false", in |-> ins, out |-> outs, aux |-> auxs]
               ELSE [ret |-> "true", in |-> ins,
                     out |-> Append(outs, dshape), aux |-> auxs]

\* InferShape that clears out_shape before it looks at the input shape
InferShapeClearFirst(ins, outs, auxs) ==
    IF Len(ins) # 1
       THEN [ret |-> "check_failed", in |-> ins, out |-> outs, aux |-> auxs]
       ELSE LET dshape == ins[kData + 1] IN
            IF ndim(dshape) = 0
               THEN [ret |-> "false", in |-> ins, out |-> <<>>, aux |-> auxs]
               ELSE [ret |-> "true", in |-> ins,
                     out |-> Append(<<>>, dshape), aux |-> auxs]

\* ActivationProp::InferShape on the three vectors the caller points to:
\* the value returned ("check_failed" when CHECK_EQ aborts the call) and the
\* vectors as the call leaves them
InferShapeFn(ins, outs, auxs) ==
    IF Len(ins) # 1
       THEN [ret |-> "check_failed", in |-> ins, out |-> outs, aux |-> auxs]
       ELSE LET dshape == ins[kData + 1] IN
            IF ndim(dshape) = 0
               THEN [ret |-> "false", in |-> ins, out |-> outs, aux |-> auxs]
               ELSE [ret |-> "true", in |-> ins,
                     out |-> Append(<<>>, dshape), aux |-> auxs]

\* a call of InferShape: the caller supplies in_shape and aux_shape, out_shape
\* holds whatever the caller or an earlier call left in it
InferShape ==
    \E ins \in ShapeVecs, auxs \in AuxVecs :
       LET r == InferShapeFn(ins, out_shape, auxs) IN
       /\ shape_pre' = [in |-> ins, out |-> out_shape, aux |-> auxs]
       /\ in_shape' = r.in
       /\ out_shape' = r.out
       /\ aux_shape' = r.aux
       /\ shape_ret' = r.ret
       /\ UNCHANGED <<paramVars, hintVars, opVars>>

\* ------------------------------------- dependencies and in-place options
\* ids of graph entries and addresses of buffers, as the planner passes them
Ids == {7, 8}
Ptrs == {"p", "q"}
\* the vectors the planner may pass, of one entry or of MaxVec entries: any
\* entry 0, and further entries that differ from it
OtherThan(S, a) == CHOOSE b \in S : b # a
VecsOver(S) ==
    {[i \in 1..n |-> IF i = 1 THEN a ELSE OtherThan(S, a)] : a \in S, n \in {1, MaxVec}}
IdVecs == VecsOver(Ids)
PtrVecs == VecsOver(Ptrs)

\* the dependency list with the two entries in the opposite order
DeclareBackwardDependencySwapped(cudnn, out_grad, in_data, out_data) ==
    IF cudnn
       THEN <<out_data[kOut + 1], out_grad[kOut + 1], in_data[kData + 1]>>
       ELSE <<out_data[kOut + 1], out_grad[kOut + 1]>>

\* ActivationProp::DeclareBackwardDependency; cudnn is MXNET_USE_CUDNN == 1
DeclareBackwardDependencyFn(cudnn, out_grad, in_data, out_data) ==
    IF cudnn
       THEN <<out_grad[kOut + 1], out_data[kOut + 1], in_data[kData + 1]>>
       ELSE <<out_grad[kOut + 1], out_data[kOut + 1]>>

\* the backward option pairing the input data id with the gradient buffer
BackwardInplaceOptionWrongId(out_grad, in_data, out_data, in_grad) ==
    << <<in_data[kData + 1], in_grad[kData + 1]>> >>

\* ActivationProp::BackwardInplaceOption: pairs <<id, pointer>>
BackwardInplaceOptionFn(out_grad, in_data, out_data, in_grad) ==
    << <<out_grad[kOut + 1], in_grad[kData + 1]>> >>

\* ActivationProp::ForwardInplaceOption: pairs <<id, pointer>>
ForwardInplaceOptionFn(in_data, out_data) ==
    << <<in_data[kData + 1], out_data[kOut + 1]>> >>

NoVec == <<>>

DeclareBackwardDependency ==
    \E og \in IdVecs, id \in IdVecs, od \in IdVecs :
       /\ hint' = [fn |-> "DeclareBackwardDependency",
                   out_grad |-> og, in_data |-> id, out_data |-> od,
                   ptrs |-> NoVec,
                   ids |-> DeclareBackwardDependencyFn(use_cudnn, og, id, od),
                   pairs |-> <<>>]
       /\ UNCHANGED <<use_cudnn, paramVars, shapeVars, opVars>>

BackwardInplaceOption ==
    \E og \in IdVecs, id \in IdVecs, od \in IdVecs, ig \in PtrVecs :
       /\ hint' = [fn |-> "BackwardInplaceOption",
                   out_grad |-> og, in_data |-> id, out_data |-> od,
                   ptrs |-> ig,
                   ids |-> <<>>,
                   pairs |-> BackwardInplaceOptionFn(og, id, od, ig)]
       /\ UNCHANGED <<use_cudnn, paramVars, shapeVars, opVars>>

ForwardInplaceOption ==
    \E id \in IdVecs, od \in PtrVecs :
       /\ hint' = [fn |-> "ForwardInplaceOption",
                   out_grad |-> NoVec, in_data |-> id, out_data |-> NoVec,
                   ptrs |-> od,
                   ids |-> <<>>,
                   pairs |-> ForwardInplaceOptionFn(id, od)]
       /\ UNCHANGED <<use_cudnn, paramVars, shapeVars, opVars>>

\* ---------------------------------------------------------- ActivationOp
\* element values of the tensors
Val == {-1, 0, 2}
Tensors == [1..NumElems -> Val]
Fill(c) == [i \in 1..NumElems |-> c]

\* buffers a TBlob may point to; "spare" backs the extra entries of a vector
\* longer than 1
BufNames == {"data", "out", "ograd", "igrad", "spare"}

\* OpReqType of mxnet/operator.h; "invalid" is any other bit pattern
ReqTypes == {"kNullOp", "kWriteTo", "kWriteInplace", "kAddTo"}
WriteReqs == {"kWriteTo", "kWriteInplace"}

\* The template parameters ForwardOp and BackwardOp are any pair of elementwise
\* functors.  The model instantiates them with two integer-valued pairs:
\*   relu: max(a, 0),            relu_grad(y): 1 if y > 0 else 0
\*   clip: max(-1, min(1, a)),   clip_grad(y): 1 - y * y
Ops == {"relu", "clip"}

ForwardOp(o, a) ==
    IF o = "relu" THEN (IF a > 0 THEN a ELSE 0)
    ELSE (IF a > 1 THEN 1 ELSE IF a < -1 THEN -1 ELSE a)

BackwardOp(o, y) ==
    IF o = "relu" THEN (IF y > 0 THEN 1 ELSE 0)
    ELSE 1 - y * y

\* Assign(out, req, exp) of operator_common.h, for one element
AssignElem(old, r, v) ==
    CASE r = "kNullOp" -> old
      [] r \in WriteReqs -> v
      [] r = "kAddTo" -> old + v

\* a vector of n TBlobs whose entry 0 points to buffer b
BlobVec(b, n) == [i \in 1..n |-> IF i = 1 THEN b ELSE "spare"]
\* a vector of n requests whose entry 0 is r
ReqVec(r, n) == [i \in 1..n |-> IF i = 1 THEN r ELSE "kNullOp"]

\* what the compiled program may do where the source indexes a vector out of
\* bounds: stop (a fault), or go on with whatever the stray read returns
UbOutcomes ==
    [kind : {"crash"}, req : {"kNullOp"}, fill : {0}]
    \cup [kind : {"value"}, req : ReqTypes \cup {"invalid"}, fill : Val]
NoUb == [kind |-> "crash", req |-> "kNullOp", fill |-> 0]

\* the trace of an invocation that stopped at a failed CHECK
Aborted(m, check) ==
    [mem |-> m, events |-> <<"check_failed">>, failed |-> check,
     checked |-> {}, indexed |-> {}, oob |-> {}, reads |-> {}, writes |-> {}]

\* a forward loop that feeds every output element from the first input element
RECURSIVE ForwardLoopFirstElem(_, _, _, _, _, _)
ForwardLoopFirstElem(m, o, data, out, r, i) ==
    IF i > NumElems THEN m
    ELSE ForwardLoopFirstElem(
            [m EXCEPT ![out][i] = AssignElem(m[out][i], r, ForwardOp(o, m[data][1]))],
            o, data, out, r, i + 1)

\* out = F<ForwardOp>(data), element by element from index i on
RECURSIVE ForwardLoop(_, _, _, _, _, _)
ForwardLoop(m, o, data, out, r, i) ==
    IF i > NumElems THEN m
    ELSE ForwardLoop(
            [m EXCEPT ![out][i] = AssignElem(m[out][i], r, ForwardOp(o, m[data][i]))],
            o, data, out, r, i + 1)

\* in_grad = F<BackwardOp>(src) * out_grad, element by element from index i on;
\* src names the buffer whose values the derivative is evaluated on
RECURSIVE BackwardLoop(_, _, _, _, _, _, _)
BackwardLoop(m, o, src, ograd, igrad, r, i) ==
    IF i > NumElems THEN m
    ELSE BackwardLoop(
            [m EXCEPT ![igrad][i] =
                AssignElem(m[igrad][i], r, BackwardOp(o, m[src][i]) * m[ograd][i])],
            o, src, ograd, igrad, r, i + 1)

\* the events after Assign: the stream wait, then the completion signal
Finish(strm) ==
    (IF strm # "null" THEN <<"wait">> ELSE <<>>) \o <<"complete">>

\* ActivationOp::Forward.  in_data, out_data: vectors of buffer names; req:
\* vector of requests; ub: what an out-of-bounds read does, if one happens.
ForwardFn(m, o, strm, in_data, req, out_data, ub) ==
    IF Len(in_data) # 1 THEN Aborted(m, "in_data")
    ELSE IF Len(out_data) # 1 THEN Aborted(m, "out_data")
    ELSE
      LET data == in_data[kData + 1]
          out  == out_data[kOut + 1]
          inb  == Len(req) >= kOut + 1
          r    == IF inb THEN req[kOut + 1] ELSE ub.req
          t    == [mem |-> m, events |-> <<>>, failed |-> "none",
                   checked |-> {"in_data", "out_data"},
                   indexed |-> {"in_data", "out_data", "req"},
                   oob |-> IF inb THEN {} ELSE {"req"},
                   reads |-> {}, writes |-> {}]
      IN
      IF ~inb /\ ub.kind = "crash" THEN [t EXCEPT !.events = <<"crash">>]
      ELSE IF r = "invalid" THEN [t EXCEPT !.events = <<"fatal">>]
      ELSE [t EXCEPT
              !.mem = IF r = "kNullOp" THEN m
                      ELSE ForwardLoop(m, o, data, out, r, 1),
              !.events = <<"assign">> \o Finish(strm),
              !.reads = CASE r = "kNullOp" -> {}
                          [] r \in WriteReqs -> {"in_data"}
                          [] r = "kAddTo" -> {"in_data", "out_data"},
              !.writes = IF r = "kNullOp" THEN {} ELSE {"out_data"}]

\* Backward with the derivative evaluated on the forward input
BackwardOnInput(m, o, strm, out_grad, in_data, out_data, req, in_grad, ub) ==
    IF Len(out_grad) # 1 THEN Aborted(m, "out_grad")
    ELSE IF ~(Len(in_data) = 1 /\ Len(in_grad) = 1) THEN Aborted(m, "in_data_in_grad")
    ELSE IF Len(req) # 1 THEN Aborted(m, "req")
    ELSE
      LET ograd == out_grad[kOut + 1]
          inb   == Len(out_data) >= kOut + 1
          igrad == in_grad[kData + 1]
          r     == req[kData + 1]
          t     == [mem |-> m, events |-> <<>>, failed |-> "none",
                    checked |-> {"out_grad", "in_data", "in_grad", "req"},
                    indexed |-> {"out_grad", "out_data", "in_grad", "req"},
                    oob |-> IF inb THEN {} ELSE {"out_data"},
                    reads |-> {}, writes |-> {}]
          m1    == IF inb THEN m ELSE [m EXCEPT !["spare"] = Fill(ub.fill)]
          m2    == IF r = "kNullOp" THEN m1
                   ELSE BackwardLoop(m1, o, in_data[kData + 1], ograd, igrad, r, 1)
      IN
      IF ~inb /\ ub.kind = "crash" THEN [t EXCEPT !.events = <<"crash">>]
      ELSE [t EXCEPT
              !.mem = [m2 EXCEPT !["spare"] = m["spare"]],
              !.events = <<"assign">> \o Finish(strm),
              !.reads = CASE r = "kNullOp" -> {}
                          [] r \in WriteReqs -> {"in_data", "out_grad"}
                          [] r = "kAddTo" -> {"in_data", "out_grad", "in_grad"},
              !.writes = IF r = "kNullOp" THEN {} ELSE {"in_grad"}]

\* ActivationOp::Backward.  An out_data[kOut] read out of bounds yields a
\* TBlob of arbitrary content, modelled as the spare buffer filled with ub.fill.
BackwardFn(m, o, strm, out_grad, in_data, out_data, req, in_grad, ub) ==
    IF Len(out_grad) # 1 THEN Aborted(m, "out_grad")
    ELSE IF ~(Len(in_data) = 1 /\ Len(in_grad) = 1) THEN Aborted(m, "in_data_in_grad")
    ELSE IF Len(req) # 1 THEN Aborted(m, "req")
    ELSE
      LET ograd == out_grad[kOut + 1]
          inb   == Len(out_data) >= kOut + 1
          out   == IF inb THEN out_data[kOut + 1] ELSE "spare"
          igrad == in_grad[kData + 1]
          r     == req[kData + 1]
          t     == [mem |-> m, events |-> <<>>, failed |-> "none",
                    checked |-> {"out_grad", "in_data", "in_grad", "req"},
                    indexed |-> {"out_grad", "out_data", "in_grad", "req"},
                    oob |-> IF inb THEN {} ELSE {"out_data"},
                    reads |-> {}, writes |-> {}]
          m1    == IF inb THEN m ELSE [m EXCEPT !["spare"] = Fill(ub.fill)]
          m2    == IF r = "kNullOp" THEN m1
                   ELSE BackwardLoop(m1, o, out, ograd, igrad, r, 1)
      IN
      IF ~inb /\ ub.kind = "crash" THEN [t EXCEPT !.events = <<"crash">>]
      ELSE [t EXCEPT
              !.mem = [m2 EXCEPT !["spare"] = m["spare"]],
              !.events = <<"assign">> \o Finish(strm),
              !.reads = CASE r = "kNullOp" -> {}
                          [] r \in WriteReqs -> {"out_data", "out_grad"}
                          [] r = "kAddTo" -> {"out_data", "out_grad", "in_grad"},
              !.writes = IF r = "kNullOp" THEN {} ELSE {"in_grad"}]

\* ActivationOp::exec_type
exec_type == "kAsync"

NoCall ==
    [name |-> "none", in_data |-> <<>>, out_data |-> <<>>, out_grad |-> <<>>,
     in_grad |-> <<>>, req |-> <<>>, pre |-> mem0,
     events |-> <<>>, failed |-> "none", checked |-> {}, indexed |-> {},
     oob |-> {}, reads |-> {}, writes |-> {}]

Record(name, id, od, og, ig, rq, pre, t) ==
    [name |-> name, in_data |-> id, out_data |-> od, out_grad |-> og,
     in_grad |-> ig, req |-> rq, pre |-> pre,
     events |-> t.events, failed |-> t.failed, checked |-> t.checked,
     indexed |-> t.indexed, oob |-> t.oob, reads |-> t.reads,
     writes |-> t.writes]

\* the invocation ran to its end without an out-of-bounds read
Clean(t) == t.failed = "none" /\ t.oob = {} /\ t.events # <<>>
            /\ t.events[Len(t.events)] = "complete"

\* the executor asks how the operator runs before it schedules it
ExecType ==
    /\ phase = "created"
    /\ exec' = exec_type
    /\ phase' = "typed"
    /\ UNCHANGED <<op, stream, sizes, mem, mem0, out_buf, fwd_call, call,
                   paramVars, shapeVars, hintVars>>

\* one invocation of Forward: the executor passes the data buffer, a request
\* and an output buffer, which is the data buffer itself when it took the
\* in-place option
Forward ==
    /\ phase = "typed"
    /\ \E nin \in sizes, nreq \in sizes, nout \in sizes, r \in ReqTypes,
          ob \in {"out", "data"}, ub \in UbOutcomes :
          LET id == BlobVec("data", nin)
              rq == ReqVec(r, nreq)
              od == BlobVec(ob, nout)
              t  == ForwardFn(mem, op, stream, id, rq, od, ub)
          IN /\ (nreq > 0 => ub = NoUb)
             /\ mem' = t.mem
             /\ call' = Record("Forward", id, od, <<>>, <<>>, rq, mem, t)
             /\ fwd_call' = call'
             /\ out_buf' = IF Clean(t) THEN ob ELSE out_buf
             /\ phase' = IF Clean(t) THEN "forwarded" ELSE "stopped"
    /\ UNCHANGED <<op, stream, sizes, mem0, exec, paramVars, shapeVars, hintVars>>

\* one invocation of Backward after a Forward: out_data is the buffer Forward
\* wrote, in_grad is the out_grad buffer itself when the executor took the
\* in-place option
Backward ==
    /\ phase = "forwarded"
    /\ \E nog \in sizes, nid \in sizes, nod \in sizes, nreq \in sizes,
          nig \in sizes, r \in ReqTypes, ib \in {"igrad", "ograd"},
          ub \in UbOutcomes :
          LET og == BlobVec("ograd", nog)
              id == BlobVec("data", nid)
              od == BlobVec(out_buf, nod)
              rq == ReqVec(r, nreq)
              ig == BlobVec(ib, nig)
              t  == BackwardFn(mem, op, stream, og, id, od, rq, ig, ub)
          IN /\ (nod > 0 => ub = NoUb)
             /\ (nod = 0 => ub.req = "kNullOp")
             /\ mem' = t.mem
             /\ call' = Record("Backward", id, od, og, ig, rq, mem, t)
             /\ phase' = IF Clean(t) THEN "backwarded" ELSE "stopped"
    /\ UNCHANGED <<op, stream, sizes, mem0, out_buf, fwd_call, exec,
                   paramVars, shapeVars, hintVars>>

\* --------------------------------------------------------- specifications
\* stale content of buffers nothing has written yet
StaleOut == Fill(2)
StaleGrad == Fill(1)

ParamIdle == act_type = <<>> /\ tried = <<>>
ShapeStart(outs) ==
    /\ in_shape = <<>> /\ out_shape \in outs /\ aux_shape = <<>>
    /\ shape_pre = [in |-> <<>>, out |-> out_shape, aux |-> <<>>]
    /\ shape_ret = "none"
ShapeIdle == ShapeStart({<<>>})
NoHint == [fn |-> "none", out_grad |-> NoVec, in_data |-> NoVec,
           out_data |-> NoVec, ptrs |-> NoVec, ids |-> <<>>, pairs |-> <<>>]
HintIdle == use_cudnn = FALSE /\ hint = NoHint
OpCreated(ss, datas, grads) ==
    /\ op \in Ops
    /\ stream \in {"null", "stream"}
    /\ sizes = ss
    /\ \E x \in datas, g \in grads :
          mem0 = [b \in BufNames |->
                    CASE b = "data" -> x
                      [] b = "ograd" -> g
                      [] b = "out" -> StaleOut
                      [] b = "igrad" -> StaleGrad
                      [] b = "spare" -> Fill(0)]
    /\ mem = mem0
    /\ out_buf = "out"
    /\ phase = "created"
    /\ exec = ""
    /\ call = NoCall
    /\ fwd_call = NoCall
OpIdle == OpCreated({1}, {Fill(0)}, {Fill(0)}) /\ op = "relu" /\ stream = "null"

\* the act_type parameter
InitParam == ParamIdle /\ ShapeIdle /\ HintIdle /\ OpIdle
SpecParam == InitParam /\ [][ParamInit]_vars

\* shape inference
InitShape == ParamIdle /\ ShapeStart(ShapeVecs) /\ HintIdle /\ OpIdle
SpecShape == InitShape /\ [][InferShape]_vars

\* dependency and in-place declarations, for every act_type and either build
InitHints ==
    /\ act_type \in {<<>>} \cup {<<add_enum[n]>> : n \in DOMAIN add_enum}
    /\ tried = <<>>
    /\ ShapeIdle
    /\ use_cudnn \in BOOLEAN
    /\ hint = NoHint
    /\ OpIdle
NextHints == DeclareBackwardDependency \/ BackwardInplaceOption \/ ForwardInplaceOption
SpecHints == InitHints /\ [][NextHints]_vars

\* Forward and Backward on well-formed argument vectors, over all tensors
InitOp == ParamIdle /\ ShapeIdle /\ HintIdle /\ OpCreated({1}, Tensors, Tensors)
NextOp == ExecType \/ Forward \/ Backward
SpecOp == InitOp /\ [][NextOp]_vars

\* Forward and Backward on argument vectors of every size, one pair of tensors
ArgData == [i \in 1..NumElems |-> IF i = 1 THEN 2 ELSE -1]
ArgGrad == [i \in 1..NumElems |-> IF i = 1 THEN -1 ELSE 2]
InitArgs == ParamIdle /\ ShapeIdle /\ HintIdle
            /\ OpCreated(0..MaxVec, {ArgData}, {ArgGrad})
SpecArgs == InitArgs /\ [][NextOp]_vars

\* ------------------------------------------------------------------ claims

\* C2 as written: the act_type parameter accepts exactly four names and the
\* enumeration they map to has exactly four values, so no run ever sees a
\* fifth name accepted or a value outside the first four.
C2_FourVariants ==
    /\ Cardinality(AcceptedNames) <= 4
    /\ AcceptedValues \subseteq 0..3

\* C2 amended: the act_type parameter accepts exactly the five names relu,
\* sigmoid, tanh, softrelu and hlu and refuses every other string; the five
\* names map to five distinct values of ActivationOpType, which has exactly
\* five enumerators.
C2_FiveVariants ==
    /\ \A n \in DOMAIN tried :
          (tried[n] # <<>>) <=> (n \in {"relu", "sigmoid", "tanh", "softrelu", "hlu"})
    /\ Cardinality(AcceptedValues) = Cardinality(AcceptedNames)
    /\ AcceptedValues \subseteq 0..4
    /\ act_type # <<>> => act_type[1] \in AcceptedValues
    /\ Len(ActivationOpType) = 5
    /\ Cardinality(Range(ActivationOpType)) = 5

\* all five names have been accepted, with five values, and a sixth refused
C2_Witness ==
    /\ Cardinality(AcceptedNames) = 5
    /\ Cardinality(AcceptedValues) = 5
    /\ \E n \in DOMAIN tried : tried[n] = <<>>

\* the last InferShape call was given exactly one input shape of known rank
KnownInput ==
    /\ shape_ret # "none"
    /\ Len(shape_pre.in) = 1
    /\ ndim(shape_pre.in[kData + 1]) # 0

\* the last InferShape call was given exactly one input shape of rank 0
UnknownInput ==
    /\ shape_ret # "none"
    /\ Len(shape_pre.in) = 1
    /\ ndim(shape_pre.in[kData + 1]) = 0

\* C3: InferShape with exactly one input shape whose ndim() is not 0 returns
\* true and leaves out_shape holding exactly that one shape, whatever
\* out_shape held before.
C3_InferShapeCopies ==
    KnownInput =>
       /\ shape_ret = "true"
       /\ out_shape = <<shape_pre.in[kData + 1]>>

\* such a call on an out_shape that held two other shapes
C3_Witness ==
    /\ KnownInput
    /\ Len(shape_pre.out) >= 2
    /\ \A i \in DOMAIN shape_pre.out : shape_pre.out[i] # shape_pre.in[kData + 1]
    /\ shape_pre.out[1] # <<>>

\* C4: InferShape with exactly one input shape whose ndim() is 0 returns false
\* and leaves out_shape as it was; every call leaves in_shape and aux_shape
\* unchanged.
C4_InferShapeUnknown ==
    /\ UnknownInput => (shape_ret = "false" /\ out_shape = shape_pre.out)
    /\ shape_ret # "none" => (in_shape = shape_pre.in /\ aux_shape = shape_pre.aux)

\* such a call on an out_shape that held entries, with an aux shape present
C4_Witness ==
    /\ UnknownInput
    /\ shape_ret = "false"
    /\ Len(out_shape) >= 1
    /\ aux_shape # <<>>

\* C7: DeclareBackwardDependency returns out_grad[kOut], then out_data[kOut],
\* and then in_data[kData] exactly when the build has cuDNN; this for every
\* act_type and after any earlier call.
C7_BackwardDependency ==
    hint.fn = "DeclareBackwardDependency" =>
       hint.ids = <<hint.out_grad[kOut + 1], hint.out_data[kOut + 1]>>
                  \o (IF use_cudnn THEN <<hint.in_data[kData + 1]>> ELSE <<>>)

\* a cuDNN build, act_type hlu, three ids returned, the first two different
C7_Witness ==
    /\ hint.fn = "DeclareBackwardDependency"
    /\ use_cudnn
    /\ act_type = <<EnumValue("kHLU")>>
    /\ Len(hint.ids) = 3
    /\ hint.out_grad[kOut + 1] # hint.out_data[kOut + 1]
    /\ Len(hint.out_grad) > 1

\* C8: ForwardInplaceOption returns exactly the pair (in_data[kData],
\* out_data[kOut]) and BackwardInplaceOption exactly the pair
\* (out_grad[kOut], in_grad[kData]), for every act_type and after any earlier
\* call.
C8_InplaceOptions ==
    /\ hint.fn = "ForwardInplaceOption" =>
          hint.pairs = << <<hint.in_data[kData + 1], hint.ptrs[kOut + 1]>> >>
    /\ hint.fn = "BackwardInplaceOption" =>
          hint.pairs = << <<hint.out_grad[kOut + 1], hint.ptrs[kData + 1]>> >>

\* a backward query whose out_grad id differs from its in_data and out_data ids
C8_Witness ==
    /\ hint.fn = "BackwardInplaceOption"
    /\ hint.out_grad[kOut + 1] # hint.in_data[kData + 1]
    /\ hint.out_grad[kOut + 1] # hint.out_data[kOut + 1]
    /\ Len(hint.ptrs) > 1
    /\ act_type # <<>>

\* the last invocation ran to its end on argument vectors of the right sizes
Ran(c, name) ==
    /\ c.name = name
    /\ c.failed = "none"
    /\ c.oob = {}
    /\ c.events # <<>>
    /\ c.events[Len(c.events)] = "complete"

\* C5: Forward under a write request leaves every output element i equal to
\* ForwardOp of input element i, and leaves the input tensor unchanged when
\* the output is a separate buffer.
C5_ForwardElementwise ==
    (Ran(call, "Forward") /\ call.req[kOut + 1] \in WriteReqs) =>
       LET data == call.in_data[kData + 1]
           out  == call.out_data[kOut + 1]
       IN /\ \A i \in 1..NumElems :
                mem[out][i] = ForwardOp(op, call.pre[data][i])
          /\ out # data => mem[data] = call.pre[data]

\* a write into a separate buffer of a tensor whose elements map to different
\* results, none of them the stale content of the output
C5_Witness ==
    /\ Ran(call, "Forward")
    /\ call.req[kOut + 1] = "kWriteTo"
    /\ call.out_data[kOut + 1] = "out"
    /\ mem["out"][1] # mem["out"][2]
    /\ \A i \in 1..NumElems : mem["out"][i] # call.pre["out"][i]

\* C6: Backward under a write request leaves every in_grad element i equal to
\* BackwardOp(out_data[i]) * out_grad[i], the derivative taken on the forward
\* output, and leaves out_grad and out_data unchanged when in_grad is a
\* separate buffer.
C6_BackwardOnOutput ==
    (Ran(call, "Backward") /\ call.req[kData + 1] \in WriteReqs) =>
       LET ograd == call.out_grad[kOut + 1]
           out   == call.out_data[kOut + 1]
           igrad == call.in_grad[kData + 1]
       IN /\ \A i \in 1..NumElems :
                mem[igrad][i] = BackwardOp(op, call.pre[out][i]) * call.pre[ograd][i]
          /\ igrad # ograd => (mem[ograd] = call.pre[ograd] /\ mem[out] = call.pre[out])

\* a backward write into a separate in_grad after a forward write into a
\* separate output, where the derivative on the output differs from the
\* derivative on the input
C6_Witness ==
    /\ Ran(call, "Backward")
    /\ call.req[kData + 1] = "kWriteTo"
    /\ call.in_grad[kData + 1] = "igrad"
    /\ call.out_data[kOut + 1] = "out"
    /\ fwd_call.req[kOut + 1] = "kWriteTo"
    /\ \E i \in 1..NumElems :
          BackwardOp(op, mem["out"][i]) * mem["ograd"][i]
             # BackwardOp(op, mem["data"][i]) * mem["ograd"][i]

\* the argument tensors Backward could declare a dependency on
BackwardInputs == {"out_grad", "in_data", "out_data"}

\* the names DeclareBackwardDependency returns when each vector holds its own
\* name as id
DeclaredNames(cudnn) ==
    Range(DeclareBackwardDependencyFn(cudnn, <<"out_grad">>, <<"in_data">>,
                                      <<"out_data">>))

\* the buffers after Forward writes mem0's data into the separate output
\* buffer and Backward then runs with the requests and in_grad of call c
SeparateRun(c) ==
    LET f == ForwardFn(mem0, op, stream, <<"data">>, <<"kWriteTo">>, <<"out">>, NoUb)
    IN BackwardFn(f.mem, op, stream, <<"ograd">>, <<"data">>, <<"out">>,
                  c.req, c.in_grad, NoUb).mem

\* C9: every argument tensor Backward reads is in the list
\* DeclareBackwardDependency returns (in either build), Backward never reads
\* in_data, and Forward written in place followed by Backward leaves the
\* same in_grad as Forward written into a separate output buffer followed by
\* the same Backward.
C9_InplaceSameGradient ==
    /\ call.name = "Backward" =>
          /\ \A c \in BOOLEAN : (call.reads \cap BackwardInputs) \subseteq DeclaredNames(c)
          /\ "in_data" \notin call.reads
    /\ (Ran(call, "Backward") /\ Ran(fwd_call, "Forward")
          /\ fwd_call.req[kOut + 1] \in WriteReqs) =>
          LET igrad == call.in_grad[kData + 1]
          IN mem[igrad] = SeparateRun(call)[igrad]

\* Forward written in place changed the data buffer, Backward then wrote a
\* gradient that a derivative taken on the original input would not give
C9_Witness ==
    /\ Ran(call, "Backward")
    /\ Ran(fwd_call, "Forward")
    /\ fwd_call.req[kOut + 1] = "kWriteInplace"
    /\ fwd_call.out_data[kOut + 1] = "data"
    /\ mem["data"] # mem0["data"]
    /\ call.req[kData + 1] \in WriteReqs
    /\ \E i \in 1..NumElems :
          mem[call.in_grad[kData + 1]][i]
             # BackwardOp(op, mem0["data"][i]) * mem0["ograd"][i]

\* C1 as written: every invocation of Forward or Backward that passes its
\* argument-count checks signals completion exactly once, after the
\* assignment and, when the stream is not null, after the wait; exec_type()
\* is kAsync.
C1_CompletesOnce ==
    /\ (call.name # "none" /\ call.failed = "none") =>
          call.events = <<"assign">> \o Finish(stream)
    /\ exec \in {"", "kAsync"}

\* C10 as written: no argument vector is indexed beyond its size, because
\* every vector that is indexed had its size checked first; and an
\* invocation whose size check fails reads and writes no tensor and does not
\* signal completion.
C10_SizesValidated ==
    /\ call.oob = {}
    /\ call.failed # "none" =>
          /\ mem = call.pre
          /\ call.reads = {} /\ call.writes = {}
          /\ "complete" \notin Range(call.events)

\* the part of C10 the code keeps: a failed size check stops the invocation
\* before any tensor is touched and before completion is signalled
AbortTouchesNothing ==
    call.failed # "none" =>
       /\ mem = call.pre
       /\ call.reads = {} /\ call.writes = {}
       /\ call.events = <<"check_failed">>

\* the part of C1 the code keeps: an invocation that indexes no vector out of
\* bounds signals completion exactly once, last
CompletesOnceInBounds ==
    (call.name # "none" /\ call.failed = "none" /\ call.oob = {}) =>
       call.events = <<"assign">> \o Finish(stream)

====
